---- MODULE Spec2Model ----
(***************************************************************************)
(* A model of the cellular SIR simulation: the bit-packed Grid             *)
(* (src/src/utils/grid.rs), the tiling of a grid into Tile views, the      *)
(* per-cell transition rules and the two step functions                    *)
(* (src/src/utils/simulation.rs), and the population counter               *)
(* (src/src/utils/maths.rs).                                               *)
(*                                                                         *)
(* Numbers.  beta, gamma, dt and i_ratio are f64 in the source.  Here a    *)
(* parameter is the integer numerator of a fraction over Den, and a value  *)
(* drawn from the random source is the numerator of a fraction over        *)
(* RollDen, always below RollDen (the source draws from [0, 1)).  The      *)
(* comparisons `roll < probability` are done exactly, cross-multiplied.    *)
(* With Den = 2 and RollDen = 32 every value is a dyadic fraction that f64 *)
(* represents exactly, and so are the products the source computes.        *)
(***************************************************************************)
EXTENDS Integers, Sequences, FiniteSets

VARIABLES
    grid_x,     \* Grid.grid_x of the caller's grid
    grid_y,     \* Grid.grid_y of the caller's grid
    cells,      \* Grid.cells of the caller's grid: bytes, 4 cells per byte
    params,     \* the SirParams of the run
    pc,         \* "idle", or the step function in progress: "direct", "tiled";
                \* in main also "start", "init", "done" or the message of a panic
    new_grid,   \* step_grid: new_grid.cells; <<>> outside step_grid
    pos,        \* step_grid: how many cells the (y, x) loops have processed
    next,       \* step_grid_tiled: next.cells; <<>> outside step_grid_tiled
    tile_width, \* step_grid_tiled: the requested tile width
    tile_height,\* step_grid_tiled: the requested tile height
    tiles,      \* step_grid_tiled: the Vec<Tile> returned by tile_grid
    progress,   \* step_grid_tiled: per tile, how many of its cells step_tile has processed
    stats,      \* the driver's `stats`: <<PopulationStats>> from count_states, or NoStats
    nwrites,    \* number of Grid::write calls made by the caller so far
    day,        \* main: the number of step_grid calls that have returned
    initial_susceptible \* history: the Susceptible cells of the grid Grid::init returned

vars == <<grid_x, grid_y, cells, params, pc, new_grid, pos, next,
          tile_width, tile_height, tiles, progress, stats, nwrites,
          day, initial_susceptible>>

----------------------------------------------------------------------------
(* Bounds of the model. *)

\* Largest grid width explored.
MaxW == 3
\* Largest grid height explored.
MaxH == 3
\* Largest requested tile width and height explored.
MaxTile == 2
\* Most Grid::write calls the caller makes in one run.
MaxWrites == 1
\* Largest number of cells of a grid whose tiles are stepped in every interleaving.
MaxParCells == 4
\* A step is explored from a grid in which at most this many cells have an
\* outcome that depends on the value drawn (a probability strictly between 0 and 1).
MaxRandomCells == 3
\* Largest number of cells of a grid that Grid::init is followed through building.
MaxInitCells == 8
\* Largest number of cells of a grid the loop of main is run on.
MaxMainCells == 4
\* Most iterations of the loop of main that are followed.
MaxDay == 4
\* Parameters are fractions over Den.
Den == 2
\* Drawn values are fractions over RollDen.
RollDen == 32

\* The values a draw from the random source takes in the model: the least
\* value of [0, 1), a middle one, and the greatest one at this resolution.
Rolls == {0, RollDen \div 2, RollDen - 1}

Half == Den \div 2
One == Den

\* The parameter sets explored.  i_ratio is 0 or 1 here, so that Grid::init
\* gives the all-Susceptible or the all-Infected grid whatever is drawn.
ParamSets ==
    { [beta |-> b, gamma |-> g, dt |-> One, i_ratio |-> i, s_ratio |-> One] :
        b \in {0, One, 8 * One}, g \in {0, One}, i \in {0, One} }
    \cup
    { [beta |-> Half, gamma |-> Half, dt |-> One, i_ratio |-> i, s_ratio |-> One] :
        i \in {0, One} }
    \cup
    { [beta |-> One, gamma |-> g, dt |-> Half, i_ratio |-> One, s_ratio |-> One] :
        g \in {0, One} }

----------------------------------------------------------------------------
(* HealthState and its two-bit encoding. *)

HealthState == {"Susceptible", "Infected", "Recovered"}

\* an encoding that gives Recovered the fourth bit pattern
AsU8Three(state) ==
    CASE state = "Susceptible" -> 0
      [] state = "Infected" -> 1
      [] state = "Recovered" -> 3

\* `state as u8`
AsU8(state) ==
    CASE state = "Susceptible" -> 0
      [] state = "Infected" -> 1
      [] state = "Recovered" -> 2

\* the match of Grid::read on the two bits; 3 is the unreachable!() arm
FromBits(bits) ==
    CASE bits = 0 -> "Susceptible"
      [] bits = 1 -> "Infected"
      [] bits = 2 -> "Recovered"
      [] OTHER -> "Invalid"

\* 1 << shift, for the shifts 0, 2, 4, 6 of a cell inside its byte
Pow2(shift) ==
    CASE shift = 0 -> 1
      [] shift = 2 -> 4
      [] shift = 4 -> 16
      [] shift = 6 -> 64

----------------------------------------------------------------------------
(* Grid.  A buffer is a function from byte index 0 .. byte_len - 1 to 0 .. 255. *)

\* (self.cells >> shift) & 0b11 of the byte idx / 4
ReadBits(buf, idx) ==
    LET byte == idx \div 4
        shift == (idx % 4) * 2
    IN (buf[byte] \div Pow2(shift)) % 4

\* Grid::read
read(buf, idx) == FromBits(ReadBits(buf, idx))

\* a write without the mask: cells[byte] | ((state as u8) << shift)
write_unmasked(buf, idx, state) ==
    LET byte == idx \div 4
        shift == (idx % 4) * 2
        old == (buf[byte] \div Pow2(shift)) % 4
        new == AsU8(state)
        ored == CASE old = new -> old
                  [] old = 0 -> new
                  [] new = 0 -> old
                  [] OTHER -> 3
    IN [buf EXCEPT ![byte] = buf[byte] - old * Pow2(shift) + ored * Pow2(shift)]

\* Grid::write: (cells[byte] & mask) | ((state as u8) << shift), mask = !(0b11 << shift)
write(buf, idx, state) ==
    LET byte == idx \div 4
        shift == (idx % 4) * 2
        old == (buf[byte] \div Pow2(shift)) % 4
        masked == buf[byte] - old * Pow2(shift)
    IN [buf EXCEPT ![byte] = (masked + AsU8(state) * Pow2(shift)) % 256]

\* Grid::write_state: the same packing on the raw buffer
write_state(buf, idx, state) ==
    LET byte == idx \div 4
        shift == (idx % 4) * 2
        old == (buf[byte] \div Pow2(shift)) % 4
        masked == buf[byte] - old * Pow2(shift)
    IN [buf EXCEPT ![byte] = (masked + AsU8(state) * Pow2(shift)) % 256]

\* Grid::get_index
get_index(gx, x, y) == y * gx + x

RECURSIVE InitLoopInclusive(_, _, _, _, _)
\* the loop of a Grid::init that infects on roll <= i_ratio
InitLoopInclusive(buf, idx, size, i_ratio, roll) ==
    IF idx >= size THEN buf
    ELSE LET state == IF roll[idx] * Den <= i_ratio * RollDen
                      THEN "Infected" ELSE "Susceptible"
         IN InitLoopInclusive(write_state(buf, idx, state), idx + 1, size, i_ratio, roll)

RECURSIVE InitLoop(_, _, _, _, _)
\* the `for idx in 0..size` loop of Grid::init; roll[idx] is the value drawn for idx
InitLoop(buf, idx, size, i_ratio, roll) ==
    IF idx >= size THEN buf
    ELSE LET state == IF roll[idx] * Den < i_ratio * RollDen
                      THEN "Infected" ELSE "Susceptible"
         IN InitLoop(write_state(buf, idx, state), idx + 1, size, i_ratio, roll)

\* Grid::init, for dimensions it accepts: the cells of the grid it returns
init(gx, gy, i_ratio, roll) ==
    LET size == gx * gy
        byte_len == (size + 3) \div 4
    IN InitLoop([b \in 0 .. byte_len - 1 |-> 0], 0, size, i_ratio, roll)

\* the offsets of the two loops without the `continue` for (0, 0)
OffsetsWithSelf ==
    << <<-1, -1>>, <<-1, 0>>, <<-1, 1>>,
       << 0, -1>>, << 0, 0>>, << 0, 1>>,
       << 1, -1>>, << 1, 0>>, << 1, 1>> >>

\* The (dy, dx) offsets in the order of the two nested -1..=1 loops, (0, 0) skipped
Offsets ==
    << <<-1, -1>>, <<-1, 0>>, <<-1, 1>>,
       << 0, -1>>,            << 0, 1>>,
       << 1, -1>>, << 1, 0>>, << 1, 1>> >>

RECURSIVE NeighborLoop(_, _, _, _, _, _)
\* the loops of Grid::get_neighbors: buffer[0 .. count - 1] after offset k
NeighborLoop(gx, gy, x, y, k, buffer) ==
    IF k > Len(Offsets) THEN buffer
    ELSE LET nx == x + Offsets[k][2]
             ny == y + Offsets[k][1]
         IN IF nx >= 0 /\ nx < gx /\ ny >= 0 /\ ny < gy
            THEN NeighborLoop(gx, gy, x, y, k + 1, Append(buffer, <<nx, ny>>))
            ELSE NeighborLoop(gx, gy, x, y, k + 1, buffer)

RECURSIVE WrappingLoop(_, _, _, _, _, _)
\* the loops of a get_neighbors that wraps around the edges of the grid
WrappingLoop(gx, gy, x, y, k, buffer) ==
    IF k > Len(Offsets) THEN buffer
    ELSE LET nx == (x + Offsets[k][2]) % gx
             ny == (y + Offsets[k][1]) % gy
         IN WrappingLoop(gx, gy, x, y, k + 1, Append(buffer, <<nx, ny>>))

\* a get_neighbors on a torus: a position off one edge is the cell at the other
get_neighbors_wrapping(gx, gy, x, y) == WrappingLoop(gx, gy, x, y, 1, <<>>)

\* Grid::get_neighbors: the coordinates written to the buffer, in order
get_neighbors(gx, gy, x, y) == NeighborLoop(gx, gy, x, y, 1, <<>>)

----------------------------------------------------------------------------
(* Tile: a view [origin_x, origin_y, tile_x, tile_y] of the grid (gx, gy, buf). *)

NoneState == "None"

\* Tile::get_state
get_state(tile, gx, gy, buf, x, y) ==
    LET global_x == tile.origin_x + x
        global_y == tile.origin_y + y
    IN IF global_x >= gx \/ global_y >= gy
       THEN NoneState
       ELSE read(buf, get_index(gx, global_x, global_y))

\* isize -> usize by try_into().ok(): Some only if the value is not negative
TryIntoUsize(v) == IF v >= 0 THEN v ELSE -1

RECURSIVE TileNeighborLoop(_, _, _, _, _, _, _, _)
\* the loops of Tile::get_neighbors_healthstates: buffer[0 .. count - 1] after offset k
TileNeighborLoop(tile, gx, gy, buf, x, y, k, buffer) ==
    IF k > Len(Offsets) THEN buffer
    ELSE LET nx == TryIntoUsize(x + Offsets[k][2])
             ny == TryIntoUsize(y + Offsets[k][1])
         IN IF nx >= 0 /\ ny >= 0 /\ get_state(tile, gx, gy, buf, nx, ny) # NoneState
            THEN TileNeighborLoop(tile, gx, gy, buf, x, y, k + 1,
                                  Append(buffer, get_state(tile, gx, gy, buf, nx, ny)))
            ELSE TileNeighborLoop(tile, gx, gy, buf, x, y, k + 1, buffer)

\* Tile::get_neighbors_healthstates: the states written to the buffer, in order
get_neighbors_healthstates(tile, gx, gy, buf, x, y) ==
    TileNeighborLoop(tile, gx, gy, buf, x, y, 1, <<>>)

\* a tile extent that is not clamped to the grid
MinNoClamp(a, b) == a

\* usize::min
Min(a, b) == IF a < b THEN a ELSE b

RECURSIVE TileLoop(_, _, _, _, _, _, _, _, _)
\* the nested `for tile_y` / `for tile_x` loops of tile_grid, one push per iteration
TileLoop(gx, gy, tw, th, num_tiles_x, num_tiles_y, tile_y, tile_x, acc) ==
    IF tile_y >= num_tiles_y THEN acc
    ELSE IF tile_x >= num_tiles_x
    THEN TileLoop(gx, gy, tw, th, num_tiles_x, num_tiles_y, tile_y + 1, 0, acc)
    ELSE LET origin_x == tile_x * tw
             origin_y == tile_y * th
             actual_width == Min(origin_x + tw, gx) - origin_x
             actual_height == Min(origin_y + th, gy) - origin_y
         IN TileLoop(gx, gy, tw, th, num_tiles_x, num_tiles_y, tile_y, tile_x + 1,
                     Append(acc, [origin_x |-> origin_x, origin_y |-> origin_y,
                                  tile_x |-> actual_width, tile_y |-> actual_height]))

\* tile_grid
tile_grid(gx, gy, tw, th) ==
    LET num_tiles_x == (gx + tw - 1) \div tw
        num_tiles_y == (gy + th - 1) \div th
    IN TileLoop(gx, gy, tw, th, num_tiles_x, num_tiles_y, 0, 0, <<>>)

----------------------------------------------------------------------------
(* The transition rules.  roll is the value drawn, a fraction over RollDen. *)

RECURSIVE CountInfectedCoords(_, _, _, _)
\* .iter().filter(|(nx, ny)| grid.read(grid.get_index(nx, ny)) == Infected).count()
CountInfectedCoords(gx, buf, coords, k) ==
    IF k > Len(coords) THEN 0
    ELSE (IF read(buf, get_index(gx, coords[k][1], coords[k][2])) = "Infected" THEN 1 ELSE 0)
         + CountInfectedCoords(gx, buf, coords, k + 1)

\* count_infected_neighbors
count_infected_neighbors(gx, gy, buf, x, y) ==
    CountInfectedCoords(gx, buf, get_neighbors(gx, gy, x, y), 1)

\* roll <= probability in place of roll < probability
InfectionDrawnInclusive(p, infected_neighbors, roll) ==
    roll * 8 * Den * Den <= p.beta * infected_neighbors * p.dt * RollDen

\* a probability that counts the cell itself as one more infected neighbour
InfectionDrawnSpontaneous(p, infected_neighbors, roll) ==
    roll * 8 * Den * Den < p.beta * (infected_neighbors + 1) * p.dt * RollDen

\* roll < (beta * infected_neighbors / 8.0) * dt
InfectionDrawn(p, infected_neighbors, roll) ==
    roll * 8 * Den * Den < p.beta * infected_neighbors * p.dt * RollDen

\* roll <= probability in place of roll < probability
RecoveryDrawnInclusive(p, roll) ==
    roll * Den * Den <= p.gamma * p.dt * RollDen

\* roll < gamma * dt
RecoveryDrawn(p, roll) ==
    roll * Den * Den < p.gamma * p.dt * RollDen

\* a process_susceptible that moves the cell straight to Recovered
process_susceptible_immune(gx, gy, buf, x, y, p, roll) ==
    LET infected_neighbors == count_infected_neighbors(gx, gy, buf, x, y)
    IN IF InfectionDrawn(p, infected_neighbors, roll) THEN "Recovered" ELSE "Susceptible"

\* process_susceptible
process_susceptible(gx, gy, buf, x, y, p, roll) ==
    LET infected_neighbors == count_infected_neighbors(gx, gy, buf, x, y)
    IN IF InfectionDrawn(p, infected_neighbors, roll) THEN "Infected" ELSE "Susceptible"

\* a process_infected that never lets the cell recover
process_infected_chronic(p, roll) == "Infected"

\* process_infected
process_infected(p, roll) ==
    IF RecoveryDrawn(p, roll) THEN "Recovered" ELSE "Infected"

\* a step_grid whose Recovered arm gives the cell back to Susceptible
StepGridCellStateWaning(gx, gy, buf, x, y, p, roll) ==
    LET current == read(buf, get_index(gx, x, y))
    IN CASE current = "Susceptible" -> process_susceptible(gx, gy, buf, x, y, p, roll)
         [] current = "Infected" -> process_infected(p, roll)
         [] current = "Recovered" -> "Susceptible"

\* the match of step_grid on the current state of the cell (x, y) of the grid read
StepGridCellState(gx, gy, buf, x, y, p, roll) ==
    LET current == read(buf, get_index(gx, x, y))
    IN CASE current = "Susceptible" -> process_susceptible(gx, gy, buf, x, y, p, roll)
         [] current = "Infected" -> process_infected(p, roll)
         [] current = "Recovered" -> "Recovered"

RECURSIVE CountInfectedStates(_, _)
\* neighbors.iter().filter(|&&s| s == HealthState::Infected).count()
CountInfectedStates(states, k) ==
    IF k > Len(states) THEN 0
    ELSE (IF states[k] = "Infected" THEN 1 ELSE 0) + CountInfectedStates(states, k + 1)

\* the match of step_tile on the current state of the local cell (x, y) of the tile
StepTileCellState(tile, gx, gy, buf, x, y, p, roll) ==
    LET current == get_state(tile, gx, gy, buf, x, y)
        neighbors == get_neighbors_healthstates(tile, gx, gy, buf, x, y)
        infected_neighbors == CountInfectedStates(neighbors, 1)
    IN CASE current = "Susceptible" ->
              IF InfectionDrawn(p, infected_neighbors, roll) THEN "Infected" ELSE "Susceptible"
         [] current = "Infected" ->
              IF RecoveryDrawn(p, roll) THEN "Recovered" ELSE "Infected"
         [] current = "Recovered" -> "Recovered"

----------------------------------------------------------------------------
(* count_states.  maths.rs iterates grid.cells as a vector of Cell { state }, *)
(* one element per cell of the grid.                                          *)

\* the grid's cells as the vector of Cell { state } that count_states iterates
CellVec(gx, gy, buf) == [i \in 1 .. gx * gy |-> [state |-> read(buf, i - 1)]]

RECURSIVE CountLoop(_, _, _)
\* the `for cell in grid.cells.iter()` loop of count_states
CountLoop(cellvec, k, acc) ==
    IF k > Len(cellvec) THEN acc
    ELSE CountLoop(cellvec, k + 1,
            CASE cellvec[k].state = "Susceptible" ->
                   [acc EXCEPT !.susceptible = acc.susceptible + 1]
              [] cellvec[k].state = "Infected" ->
                   [acc EXCEPT !.infected = acc.infected + 1]
              [] cellvec[k].state = "Recovered" ->
                   [acc EXCEPT !.recovered = acc.recovered + 1])

\* a count_states whose loop skips the first cell
count_states_skip_first(cellvec) ==
    CountLoop(cellvec, 2, [susceptible |-> 0, infected |-> 0, recovered |-> 0])

\* count_states
count_states(cellvec) ==
    CountLoop(cellvec, 1, [susceptible |-> 0, infected |-> 0, recovered |-> 0])

----------------------------------------------------------------------------
(* The state machine. *)

\* no PopulationStats held
NoStats == <<>>

Size == grid_x * grid_y

\* the cells whose next state, under the rules of step_grid, depends on the value drawn
RandomCells ==
    { idx \in 0 .. Size - 1 :
        LET x == idx % grid_x
            y == idx \div grid_x
        IN \E r1, r2 \in Rolls :
              StepGridCellState(grid_x, grid_y, cells, x, y, params, r1)
              # StepGridCellState(grid_x, grid_y, cells, x, y, params, r2) }

\* Grid::init(w, h, &p) by the driver; every cell gets the same draw r
Init ==
    /\ grid_x \in 1 .. MaxW
    /\ grid_y \in 1 .. MaxH
    /\ params \in ParamSets
    /\ \E r \in Rolls :
          cells = init(grid_x, grid_y, params.i_ratio, [i \in 0 .. grid_x * grid_y - 1 |-> r])
    /\ pc = "idle"
    /\ new_grid = <<>>
    /\ pos = 0
    /\ next = <<>>
    /\ tile_width = 0
    /\ tile_height = 0
    /\ tiles = <<>>
    /\ progress = <<>>
    /\ stats = NoStats
    /\ nwrites = 0
    /\ day = 0
    /\ initial_susceptible = count_states(CellVec(grid_x, grid_y, cells)).susceptible

\* grid.write(idx, state) by the caller, between steps
Write(idx, state) ==
    /\ pc = "idle"
    /\ nwrites < MaxWrites
    /\ cells' = write(cells, idx, state)
    /\ stats' = NoStats
    /\ nwrites' = nwrites + 1
    /\ UNCHANGED <<grid_x, grid_y, params, pc, new_grid, pos, next,
                   tile_width, tile_height, tiles, progress,
                   day, initial_susceptible>>

\* let stats = count_states(&grid)
CountStates ==
    /\ pc = "idle"
    /\ stats = NoStats
    /\ stats' = <<count_states(CellVec(grid_x, grid_y, cells))>>
    /\ UNCHANGED <<grid_x, grid_y, cells, params, pc, new_grid, pos, next,
                   tile_width, tile_height, tiles, progress, nwrites,
                   day, initial_susceptible>>

\* step_grid, entry: new_grid is built with a clone of grid.cells
StepGridBegin ==
    /\ pc = "idle"
    /\ Cardinality(RandomCells) <= MaxRandomCells
    /\ pc' = "direct"
    /\ new_grid' = cells
    /\ pos' = 0
    /\ stats' = NoStats
    /\ UNCHANGED <<grid_x, grid_y, cells, params, next,
                   tile_width, tile_height, tiles, progress, nwrites,
                   day, initial_susceptible>>

\* a step_grid that read the grid it is writing (an update in place)
StepGridSourceInPlace == new_grid

\* the grid whose cells one iteration of step_grid reads: `grid`
StepGridSource == cells

\* step_grid, one iteration of the y / x loops
StepGridCell ==
    /\ pc = "direct"
    /\ pos < Size
    /\ LET y == pos \div grid_x
           x == pos % grid_x
           idx == get_index(grid_x, x, y)
       IN \E roll \in Rolls :
             new_grid' = write(new_grid, idx,
                               StepGridCellState(grid_x, grid_y, StepGridSource, x, y, params, roll))
    /\ pos' = pos + 1
    /\ UNCHANGED <<grid_x, grid_y, cells, params, pc, next,
                   tile_width, tile_height, tiles, progress, stats, nwrites,
                   day, initial_susceptible>>

\* the loops of step_grid have run to their end
StepGridScanned == pos >= Size

\* step_grid, exit: *grid = new_grid
StepGridEnd ==
    /\ pc = "direct"
    /\ StepGridScanned
    /\ cells' = new_grid
    /\ new_grid' = <<>>
    /\ pos' = 0
    /\ pc' = "idle"
    /\ stats' = NoStats
    /\ UNCHANGED <<grid_x, grid_y, params, next,
                   tile_width, tile_height, tiles, progress, nwrites,
                   day, initial_susceptible>>

\* step_grid_tiled, entry: next = Grid::init(.., i_ratio: 0.0), tiles = tile_grid(..)
StepGridTiledBegin(tw, th) ==
    /\ pc = "idle"
    /\ Cardinality(RandomCells) <= MaxRandomCells
    /\ pc' = "tiled"
    /\ \E r \in Rolls : next' = init(grid_x, grid_y, 0, [i \in 0 .. Size - 1 |-> r])
    /\ tile_width' = tw
    /\ tile_height' = th
    /\ tiles' = tile_grid(grid_x, grid_y, tw, th)
    /\ progress' = [t \in 1 .. Len(tile_grid(grid_x, grid_y, tw, th)) |-> 0]
    /\ stats' = NoStats
    /\ UNCHANGED <<grid_x, grid_y, cells, params, new_grid, pos, nwrites,
                   day, initial_susceptible>>

\* the number of iterations of the y / x loops of step_tile for a tile
TileCells(tile) == tile.tile_x * tile.tile_y

\* step_tile has processed every cell of tile t
TileDone(t) == progress[t] >= TileCells(tiles[t])

\* `for tile in &tiles`: the tile whose step_tile call is running or due
CurrentTile(t) == ~TileDone(t) /\ \A s \in 1 .. t - 1 : TileDone(s)

\* an output index taken from the tile-local coordinates
OutputIndexLocal(tile, gx, x, y) == get_index(gx, x, y)

\* output.get_index(tile.origin_x + x, tile.origin_y + y)
OutputIndex(tile, gx, x, y) == get_index(gx, tile.origin_x + x, tile.origin_y + y)

\* step_tile, one iteration of the y / x loops for tile t
StepTileCell(t) ==
    /\ pc = "tiled"
    /\ ~TileDone(t)
    /\ LET tile == tiles[t]
           y == progress[t] \div tile.tile_x
           x == progress[t] % tile.tile_x
           idx == OutputIndex(tile, grid_x, x, y)
       IN \E roll \in Rolls :
             next' = write(next, idx,
                           StepTileCellState(tile, grid_x, grid_y, cells, x, y, params, roll))
    /\ progress' = [progress EXCEPT ![t] = progress[t] + 1]
    /\ UNCHANGED <<grid_x, grid_y, cells, params, pc, new_grid, pos,
                   tile_width, tile_height, tiles, stats, nwrites,
                   day, initial_susceptible>>

\* every step_tile call has returned
AllTilesDone == \A t \in 1 .. Len(tiles) : TileDone(t)

\* step_grid_tiled, exit: next is returned and the caller makes it its grid
StepGridTiledEnd ==
    /\ pc = "tiled"
    /\ AllTilesDone
    /\ cells' = next
    /\ next' = <<>>
    /\ tile_width' = 0
    /\ tile_height' = 0
    /\ tiles' = <<>>
    /\ progress' = <<>>
    /\ pc' = "idle"
    /\ stats' = NoStats
    /\ UNCHANGED <<grid_x, grid_y, params, new_grid, pos, nwrites,
                   day, initial_susceptible>>

\* the program: the tiles are stepped one after the other, in the order of tile_grid
Next ==
    \/ \E idx \in 0 .. Size - 1, state \in HealthState : Write(idx, state)
    \/ CountStates
    \/ StepGridBegin
    \/ StepGridCell
    \/ StepGridEnd
    \/ \E tw \in 1 .. MaxTile, th \in 1 .. MaxTile : StepGridTiledBegin(tw, th)
    \/ \E t \in 1 .. Len(tiles) : CurrentTile(t) /\ StepTileCell(t)
    \/ StepGridTiledEnd

Spec == Init /\ [][Next]_vars

----------------------------------------------------------------------------
(* The tiled step with its tiles stepped concurrently: the same step_tile     *)
(* iterations, taken for any unfinished tile in any order.                     *)

InitPar == Init /\ grid_x * grid_y <= MaxParCells

NextPar ==
    \/ \E idx \in 0 .. Size - 1, state \in HealthState : Write(idx, state)
    \/ CountStates
    \/ StepGridBegin
    \/ StepGridCell
    \/ StepGridEnd
    \/ \E tw \in 1 .. MaxTile, th \in 1 .. MaxTile : StepGridTiledBegin(tw, th)
    \/ \E t \in 1 .. Len(tiles) : StepTileCell(t)
    \/ StepGridTiledEnd

SpecPar == InitPar /\ [][NextPar]_vars

RECURSIVE StepTileLoop(_, _, _, _, _, _, _, _)
\* step_tile as one call: the y / x loops from iteration c on; roll[idx] is the
\* value drawn for the cell written at output index idx
StepTileLoop(tile, gx, gy, buf, p, output, c, roll) ==
    IF c >= TileCells(tile) THEN output
    ELSE LET y == c \div tile.tile_x
             x == c % tile.tile_x
             idx == OutputIndex(tile, gx, x, y)
             new_state == StepTileCellState(tile, gx, gy, buf, x, y, p, roll[idx])
         IN StepTileLoop(tile, gx, gy, buf, p, write(output, idx, new_state), c + 1, roll)

RECURSIVE StepTilesLoop(_, _, _, _, _, _, _, _)
\* `for tile in &tiles { step_tile(tile, params, &mut next) }` from tile t on
StepTilesLoop(tls, gx, gy, buf, p, output, t, roll) ==
    IF t > Len(tls) THEN output
    ELSE StepTilesLoop(tls, gx, gy, buf, p,
                       StepTileLoop(tls[t], gx, gy, buf, p, output, 0, roll), t + 1, roll)

\* step_grid_tiled as one call: the cells of the grid it returns
step_grid_tiled(gx, gy, buf, p, tw, th, roll) ==
    StepTilesLoop(tile_grid(gx, gy, tw, th), gx, gy, buf, p,
                  init(gx, gy, 0, roll), 1, roll)

----------------------------------------------------------------------------
(* Grid::init as a call that can fail.  Before the call pc = "start" and      *)
(* grid_x, grid_y hold its arguments; a panic leaves its message in pc.       *)

\* usize::MAX.  usize is taken 31 bits wide, the widest that TLC's integers
\* hold; as on the 32- and 64-bit targets, MAX_CELLS lies below it.
UsizeMax == 2147483647

\* const MAX_CELLS
MAX_CELLS == 1000000000

\* usize::checked_mul: <<product>>, or <<>> (None) when it does not fit usize
checked_mul(a, b) ==
    IF a # 0 /\ b > UsizeMax \div a THEN <<>> ELSE <<a * b>>

\* .expect("Grid dimensions overflowed")
PanicOverflow == "Grid dimensions overflowed"

\* panic!("Grid too large: ...")
PanicTooLarge == "Grid too large"

\* a ceiling that rejects a size equal to it
TooLargeInclusive(size) == size >= MAX_CELLS

\* if size > MAX_CELLS
TooLarge(size) == size > MAX_CELLS

\* Grid::init, the size checks
GridInitCheck ==
    /\ pc = "start"
    /\ LET size == checked_mul(grid_x, grid_y)
       IN pc' = IF size = <<>> THEN PanicOverflow
                ELSE IF TooLarge(size[1]) THEN PanicTooLarge
                ELSE "init"
    /\ UNCHANGED <<grid_x, grid_y, cells, params, new_grid, pos, next,
                   tile_width, tile_height, tiles, progress, stats, nwrites,
                   day, initial_susceptible>>

\* Grid::init, from the allocation of the buffer to the return of the grid
GridInitBuild ==
    /\ pc = "init"
    /\ grid_x <= MaxW
    /\ grid_y <= MaxH
    /\ grid_x * grid_y <= MaxInitCells
    /\ \E roll \in [0 .. grid_x * grid_y - 1 -> Rolls] :
          LET built == init(grid_x, grid_y, params.i_ratio, roll)
          IN /\ cells' = built
             /\ initial_susceptible' = count_states(CellVec(grid_x, grid_y, built)).susceptible
    /\ pc' = "idle"
    /\ UNCHANGED <<grid_x, grid_y, params, new_grid, pos, next,
                   tile_width, tile_height, tiles, progress, stats, nwrites, day>>

\* dimensions too large for a grid to be built in the model: at and around the
\* ceiling, and at and around the width of usize
LargeDims == {MAX_CELLS, MAX_CELLS + 1, 65536, UsizeMax}

\* parameter sets for Grid::init: it reads i_ratio alone
InitParamSets ==
    { [beta |-> One, gamma |-> One, dt |-> One, i_ratio |-> i, s_ratio |-> One] :
        i \in {0, Half, One} }

\* the caller is about to call Grid::init(grid_x, grid_y, &params)
InitCall ==
    /\ grid_x \in (0 .. MaxW) \cup LargeDims
    /\ grid_y \in (0 .. MaxH) \cup LargeDims
    /\ params \in InitParamSets
    /\ cells = <<>>
    /\ pc = "start"
    /\ new_grid = <<>>
    /\ pos = 0
    /\ next = <<>>
    /\ tile_width = 0
    /\ tile_height = 0
    /\ tiles = <<>>
    /\ progress = <<>>
    /\ stats = NoStats
    /\ nwrites = 0
    /\ day = 0
    /\ initial_susceptible = 0

NextInit ==
    \/ GridInitCheck
    \/ GridInitBuild

SpecInit == InitCall /\ [][NextInit]_vars

----------------------------------------------------------------------------
(* main: Grid::init, then the loop of count_states, the test of              *)
(* stats.infected and step_grid.                                              *)

\* the parameter sets the loop is run with
MainParamSets ==
    { [beta |-> b, gamma |-> g, dt |-> One, i_ratio |-> i, s_ratio |-> One] :
        b \in {0, Half, 8 * One}, g \in {0, One}, i \in {0, Half} }
    \cup
    { [beta |-> 0, gamma |-> Half, dt |-> One, i_ratio |-> Half, s_ratio |-> One] }

\* main has its params and is about to call Grid::init
InitMain ==
    /\ grid_x \in 0 .. MaxW
    /\ grid_y \in 0 .. MaxH
    /\ grid_x * grid_y <= MaxMainCells
    /\ params \in MainParamSets
    /\ cells = <<>>
    /\ pc = "start"
    /\ new_grid = <<>>
    /\ pos = 0
    /\ next = <<>>
    /\ tile_width = 0
    /\ tile_height = 0
    /\ tiles = <<>>
    /\ progress = <<>>
    /\ stats = NoStats
    /\ nwrites = 0
    /\ day = 0
    /\ initial_susceptible = 0

\* if stats.infected == 0 { break }
MainBreak ==
    /\ pc = "idle"
    /\ stats # NoStats
    /\ stats[1].infected = 0
    /\ pc' = "done"
    /\ UNCHANGED <<grid_x, grid_y, cells, params, new_grid, pos, next,
                   tile_width, tile_height, tiles, progress, stats, nwrites,
                   day, initial_susceptible>>

\* stats.infected != 0: the call of step_grid, entry
MainStepGrid ==
    /\ pc = "idle"
    /\ stats # NoStats
    /\ stats[1].infected # 0
    /\ day < MaxDay
    /\ pc' = "direct"
    /\ new_grid' = cells
    /\ pos' = 0
    /\ stats' = NoStats
    /\ UNCHANGED <<grid_x, grid_y, cells, params, next,
                   tile_width, tile_height, tiles, progress, nwrites,
                   day, initial_susceptible>>

\* step_grid, exit, and day += 1
MainStepGridEnd ==
    /\ pc = "direct"
    /\ StepGridScanned
    /\ cells' = new_grid
    /\ new_grid' = <<>>
    /\ pos' = 0
    /\ pc' = "idle"
    /\ day' = day + 1
    /\ UNCHANGED <<grid_x, grid_y, params, next,
                   tile_width, tile_height, tiles, progress, stats, nwrites,
                   initial_susceptible>>

NextMain ==
    \/ GridInitCheck
    \/ GridInitBuild
    \/ CountStates
    \/ MainBreak
    \/ MainStepGrid
    \/ StepGridCell
    \/ MainStepGridEnd

\* main is one thread that runs until it returns: its next statement is
\* always taken in the end
SpecMain == InitMain /\ [][NextMain]_vars /\ WF_vars(NextMain)

----------------------------------------------------------------------------
(* Vocabulary of the properties. *)

\* the indices of the cells of the grid
Indices == 0 .. Size - 1

XOf(idx) == idx % grid_x
YOf(idx) == idx \div grid_x

\* the Moore neighbours of cell idx that lie inside the grid, as indices
MooreInGrid(idx) ==
    { j \in Indices :
        /\ j # idx
        /\ XOf(j) - XOf(idx) \in {-1, 0, 1}
        /\ YOf(j) - YOf(idx) \in {-1, 0, 1} }

\* the states the rules of step_grid allow for cell idx after a step from buffer buf
DirectOutcomes(buf, idx) ==
    { StepGridCellState(grid_x, grid_y, buf, XOf(idx), YOf(idx), params, roll) : roll \in Rolls }

\* the cells of tile: their indices in the grid
Extent(tile) ==
    { j \in Indices :
        /\ XOf(j) >= tile.origin_x /\ XOf(j) < tile.origin_x + tile.tile_x
        /\ YOf(j) >= tile.origin_y /\ YOf(j) < tile.origin_y + tile.tile_y }

\* the states step_tile allows for the cell idx of tile after a step from buffer buf
TileOutcomes(tile, buf, idx) ==
    { StepTileCellState(tile, grid_x, grid_y, buf,
                        XOf(idx) - tile.origin_x, YOf(idx) - tile.origin_y, params, roll) :
        roll \in Rolls }

\* a step function is returning: its grid becomes the caller's
Publish == pc # "idle" /\ pc' = "idle"

\* a step function has written every cell and is about to return
Scanned == (pc = "direct" /\ pos = Size) \/ (pc = "tiled" /\ AllTilesDone)

\* the cells of the grid the running step function is building
Output == IF pc = "direct" THEN new_grid ELSE next

----------------------------------------------------------------------------
(* C1 *)

\* one iteration of step_grid: the source is untouched, only the cell at pos is
\* written, with a state the rules allow for it in the source grid
C1DirectIteration ==
    /\ cells' = cells
    /\ pos < Size
    /\ pos' = pos + 1
    /\ \A j \in Indices \ {pos} : read(new_grid', j) = read(new_grid, j)
    /\ read(new_grid', pos) \in DirectOutcomes(cells, pos)

\* one iteration of step_tile: the source is untouched, only the cell processed is
\* written, with a state computed from the source grid
C1TiledIteration ==
    /\ cells' = cells
    /\ \E t \in 1 .. Len(tiles) :
          /\ progress[t] < TileCells(tiles[t])
          /\ progress' = [progress EXCEPT ![t] = progress[t] + 1]
          /\ LET tile == tiles[t]
                 idx == (tile.origin_y + (progress[t] \div tile.tile_x)) * grid_x
                        + tile.origin_x + (progress[t] % tile.tile_x)
             IN /\ \A j \in Indices \ {idx} : read(next', j) = read(next, j)
                /\ read(next', idx) \in TileOutcomes(tile, cells, idx)

C1Step ==
    /\ (pc = "idle" /\ pc' # "idle") => cells' = cells
    /\ (pc = "direct" /\ pc' = "direct") => C1DirectIteration
    /\ (pc = "tiled" /\ pc' = "tiled") => C1TiledIteration
    /\ (pc = "direct" /\ pc' = "idle") => (pos = Size /\ cells' = new_grid)
    /\ (pc = "tiled" /\ pc' = "idle") =>
          /\ \A j \in Indices : \E t \in 1 .. Len(tiles) :
                j \in Extent(tiles[t]) /\ progress[t] = TileCells(tiles[t])
          /\ cells' = next

\* C1: read-old/write-new.  While a step (step_grid, or step_grid_tiled through
\* step_tile) runs, the caller's grid does not change; each iteration writes one
\* cell of the grid being built, with a state computed from that cell and its
\* neighbours in the caller's grid, never from the grid being built; and the
\* caller's grid is replaced only once every cell has been written.
C1_ReadOldWriteNew == [][C1Step]_vars

\* C1 witness: step_grid is about to process a Susceptible cell one of whose
\* neighbours it has already given a new state in new_grid.
C1_Witness ==
    /\ pc = "direct"
    /\ pos < Size
    /\ read(cells, pos) = "Susceptible"
    /\ \E j \in MooreInGrid(pos) : j < pos /\ read(new_grid, j) # read(cells, j)

----------------------------------------------------------------------------
(* C2 *)

\* C2: Recovered is terminal.  Whenever a step (direct or tiled) returns, every
\* cell that was Recovered in the grid before the step is Recovered in the grid
\* after it.
C2_RecoveredTerminal ==
    [][Publish => \A j \in Indices :
                     read(cells, j) = "Recovered" => read(cells', j) = "Recovered"]_vars

\* C2 witness: a tiled step has written every cell, and a cell that was Recovered
\* before the step is Recovered in the grid it returns.
C2_Witness ==
    /\ pc = "tiled"
    /\ AllTilesDone
    /\ \E j \in Indices : read(cells, j) = "Recovered" /\ read(next, j) = "Recovered"

----------------------------------------------------------------------------
(* C3 *)

\* the tiles tile_grid makes for the requested size (tw, th)
TilesFor(tw, th) == tile_grid(grid_x, grid_y, tw, th)

\* the tile of tls that holds cell idx
TileOf(tls, idx) == tls[CHOOSE t \in 1 .. Len(tls) : idx \in Extent(tls[t])]

\* C3: the tiled step is equivalent to the direct step.  Every grid
\* step_grid_tiled returns is one step_grid can produce from the same grid, and
\* every grid step_grid produces is one step_grid_tiled can return, whatever the
\* tile size: cell for cell, the states the two allow are the same.
C3_TiledEqualsDirect ==
    /\ (pc = "tiled" /\ AllTilesDone) =>
          \A j \in Indices : read(next, j) \in DirectOutcomes(cells, j)
    /\ (pc = "direct" /\ pos = Size) =>
          \A tw \in 1 .. MaxTile, th \in 1 .. MaxTile : \A j \in Indices :
             read(new_grid, j) \in TileOutcomes(TileOf(TilesFor(tw, th), j), cells, j)

----------------------------------------------------------------------------
(* C4 *)

\* how many entries of the sequence of states seq are state s
Occurrences(seq, s) == Cardinality({k \in 1 .. Len(seq) : seq[k] = s})

\* C4: a tile's neighbour query is bounded by the parent grid, not by the tile.
\* For every tile and every cell of its extent, the states returned are the states
\* of the Moore neighbours of the cell that lie inside the parent grid: as many
\* Susceptible, as many Infected and as many Recovered.
C4_TileNeighboursAreGridNeighbours ==
    pc = "tiled" =>
       \A t \in 1 .. Len(tiles) : \A j \in Extent(tiles[t]) :
          LET states == get_neighbors_healthstates(tiles[t], grid_x, grid_y, cells,
                           XOf(j) - tiles[t].origin_x, YOf(j) - tiles[t].origin_y)
          IN \A s \in HealthState :
                Occurrences(states, s)
                = Cardinality({n \in MooreInGrid(j) : read(cells, n) = s})

----------------------------------------------------------------------------
(* C5 *)

\* ceil(a / b)
CeilDiv(a, b) == CHOOSE n \in 0 .. a : n * b >= a /\ (n - 1) * b < a

\* C5: tiling coverage.  tile_grid returns ceil(width / tile_width) *
\* ceil(height / tile_height) tiles in row-major order; every tile lies inside
\* the grid, with an extent of at least 1 and at most the requested size; and
\* every cell of the grid belongs to exactly one tile.
C5_TilingCoverage ==
    pc = "tiled" =>
       LET nx == CeilDiv(grid_x, tile_width)
           ny == CeilDiv(grid_y, tile_height)
       IN /\ Len(tiles) = nx * ny
          /\ \A k \in 1 .. Len(tiles) :
                /\ tiles[k].origin_x = ((k - 1) % nx) * tile_width
                /\ tiles[k].origin_y = ((k - 1) \div nx) * tile_height
                /\ tiles[k].tile_x >= 1 /\ tiles[k].tile_x <= tile_width
                /\ tiles[k].tile_y >= 1 /\ tiles[k].tile_y <= tile_height
                /\ tiles[k].origin_x + tiles[k].tile_x <= grid_x
                /\ tiles[k].origin_y + tiles[k].tile_y <= grid_y
          /\ \A x \in 0 .. grid_x - 1, y \in 0 .. grid_y - 1 :
                Cardinality({k \in 1 .. Len(tiles) :
                    /\ x >= tiles[k].origin_x /\ x < tiles[k].origin_x + tiles[k].tile_x
                    /\ y >= tiles[k].origin_y /\ y < tiles[k].origin_y + tiles[k].tile_y}) = 1

\* C5 witness: a tiling of several tiles in several rows, whose last tile is
\* clamped in both directions.
C5_Witness ==
    /\ pc = "tiled"
    /\ Len(tiles) = 4
    /\ tiles[4].origin_y > 0
    /\ tiles[4].tile_x < tile_width
    /\ tiles[4].tile_y < tile_height

----------------------------------------------------------------------------
(* C6, under SpecPar *)

\* the grids step_grid_tiled, stepping its tiles one after the other, can return
SequentialResults ==
    { step_grid_tiled(grid_x, grid_y, cells, params, tile_width, tile_height, roll) :
        roll \in [Indices -> Rolls] }

C6Step ==
    /\ (pc = "tiled" /\ pc' = "tiled") =>
          /\ cells' = cells
          /\ \E t \in 1 .. Len(tiles) :
                /\ progress' = [progress EXCEPT ![t] = progress[t] + 1]
                /\ {j \in Indices : read(next', j) # read(next, j)} \subseteq Extent(tiles[t])
                /\ \A s \in 1 .. Len(tiles) :
                      s # t => Extent(tiles[s]) \cap Extent(tiles[t]) = {}
    /\ (pc = "tiled" /\ pc' = "idle") => next \in SequentialResults

\* C6: tiles are independent during a tiled step.  With the step_tile calls of
\* the tiles interleaved in any order, iteration by iteration: an iteration for
\* a tile changes only output cells of that tile's extent, which no other tile's
\* extent shares, and never the source grid; and the grid returned at the end is
\* one the sequential step_grid_tiled can return.
C6_TilesIndependent == [][C6Step]_vars

\* C6 witness: the tiles run out of order: the last tile has written cells, one
\* of them no longer Susceptible, while the first tile has not started.
C6_Witness ==
    /\ pc = "tiled"
    /\ Len(tiles) >= 2
    /\ progress[1] = 0
    /\ progress[Len(tiles)] > 0
    /\ \E j \in Extent(tiles[Len(tiles)]) : read(next, j) # "Susceptible"

----------------------------------------------------------------------------
(* C7 *)

\* the number of Infected cells among the Moore neighbours of cell idx in the grid
InfectedAround(idx) == Cardinality({n \in MooreInGrid(idx) : read(cells, n) = "Infected"})

\* cell idx is Susceptible and its 8 Moore neighbours are all Infected
Surrounded(idx) == read(cells, idx) = "Susceptible" /\ InfectedAround(idx) = 8

\* C7: certain infection.  With beta = 1.0 and dt = 1.0, when a step has written
\* every cell, a cell that was Susceptible with all 8 Moore neighbours Infected is
\* Infected in the grid the step returns; and with gamma = 0.0, in the 3x3 grid
\* of 8 Infected cells around a Susceptible centre, all 9 cells are.
C7_CertainInfection ==
    (Scanned /\ params.beta = One /\ params.dt = One) =>
       /\ \A j \in Indices : Surrounded(j) => read(Output, j) = "Infected"
       /\ (params.gamma = 0 /\ grid_x = 3 /\ grid_y = 3 /\ Surrounded(4)) =>
             \A j \in Indices : read(Output, j) = "Infected"

\* C7 for step_grid alone
C7_CertainInfectionDirect == pc = "direct" => C7_CertainInfection

----------------------------------------------------------------------------
(* C8 *)

\* C8: recovery at the extremes.  Whenever a step returns: with gamma = 1.0 and
\* dt = 1.0, every cell that was Infected before the step is Recovered after it;
\* with gamma = 0.0, every cell that was Infected before the step is Infected
\* after it.
C8_RecoveryExtremes ==
    [][Publish => \A j \in Indices : read(cells, j) = "Infected" =>
          /\ (params.gamma = One /\ params.dt = One) => read(cells', j) = "Recovered"
          /\ params.gamma = 0 => read(cells', j) = "Infected"]_vars

\* C8 witness: with gamma = 1.0 and dt = 1.0, a step has written every cell, and
\* a cell that was Infected is Recovered in the grid it returns.
C8_Witness ==
    /\ Scanned
    /\ params.gamma = One
    /\ params.dt = One
    /\ \E j \in Indices : read(cells, j) = "Infected" /\ read(Output, j) = "Recovered"

----------------------------------------------------------------------------
(* C9 *)

\* C9: no infection without transmission rate.  With beta = 0.0, whenever a step
\* returns, the cells that are Susceptible after it are exactly those that were
\* Susceptible before it.
C9_NoInfectionAtBetaZero ==
    [][(Publish /\ params.beta = 0) =>
          \A j \in Indices :
             read(cells', j) = "Susceptible" <=> read(cells, j) = "Susceptible"]_vars

\* C9 witness: with beta = 0.0, a step has written every cell, and a cell that
\* was Susceptible with 8 Infected neighbours is Susceptible in the grid it returns.
C9_Witness ==
    /\ Scanned
    /\ params.beta = 0
    /\ \E j \in Indices : Surrounded(j) /\ read(Output, j) = "Susceptible"

----------------------------------------------------------------------------
(* C10 *)

\* the number of cells of the grid in state s
Population(buf, s) == Cardinality({j \in Indices : read(buf, j) = s})

----------------------------------------------------------------------------
(* C11 *)

\* the two bits stored for every cell of the grid buf are 0, 1 or 2
ValidCells(buf) == \A j \in Indices : ReadBits(buf, j) \in {0, 1, 2}

\* C11: valid-state invariant.  After Grid::init and after any sequence of
\* write, step_grid and step_grid_tiled, every cell of the grid holds one of the
\* two-bit values 0, 1, 2, and so does every cell of the grid a running step is
\* building: 3 is never stored, and read never takes its unreachable arm.
C11_ValidStates ==
    /\ ValidCells(cells)
    /\ \A j \in Indices : read(cells, j) \in HealthState
    /\ pc = "direct" => ValidCells(new_grid)
    /\ pc = "tiled" => ValidCells(next)

\* C11 witness: after a write and steps the grid holds all three values, a
\* Recovered cell in the same byte as an Infected one.
C11_Witness ==
    /\ pc = "idle"
    /\ nwrites > 0
    /\ \E i, j, k \in Indices :
          /\ i \div 4 = j \div 4
          /\ ReadBits(cells, i) = 2
          /\ ReadBits(cells, j) = 1
          /\ ReadBits(cells, k) = 0

----------------------------------------------------------------------------
(* C12 *)

\* coordinate pair a comes before b in the row-major scan of (dy, dx)
RowMajorBefore(a, b) == a[2] < b[2] \/ (a[2] = b[2] /\ a[1] < b[1])

\* how many of the four edges of the grid the cell (x, y) lies on, for a grid
\* of at least 3 x 3 cells
EdgesTouched(x, y) ==
    (IF x = 0 \/ x = grid_x - 1 THEN 1 ELSE 0) + (IF y = 0 \/ y = grid_y - 1 THEN 1 ELSE 0)

\* C12: neighbour enumeration.  For every cell (x, y) of the grid,
\* get_neighbors yields exactly the Moore-neighbourhood coordinates that lie
\* inside the grid, each once, never the cell itself, in the row-major order of
\* (dy, dx); in a grid of at least 3 x 3 cells that is 3 coordinates for a
\* corner, 5 for another edge cell and 8 for an interior cell.
C12_NeighbourEnumeration ==
    \A idx \in Indices :
       LET x == XOf(idx)
           y == YOf(idx)
           n == get_neighbors(grid_x, grid_y, x, y)
       IN /\ {n[k] : k \in 1 .. Len(n)} = {<<XOf(j), YOf(j)>> : j \in MooreInGrid(idx)}
          /\ Len(n) = Cardinality(MooreInGrid(idx))
          /\ \A k \in 1 .. Len(n) : n[k] # <<x, y>>
          /\ \A a, b \in 1 .. Len(n) : a < b => RowMajorBefore(n[a], n[b])
          /\ (grid_x >= 3 /\ grid_y >= 3) =>
                Len(n) = CASE EdgesTouched(x, y) = 2 -> 3
                           [] EdgesTouched(x, y) = 1 -> 5
                           [] EdgesTouched(x, y) = 0 -> 8

\* C12 witness: in a 3 x 3 grid step_grid has processed a corner and an edge
\* cell and is about to count the infected neighbours of the interior cell, a
\* Susceptible cell for which get_neighbors yields 8 coordinates.
C12_Witness ==
    /\ pc = "direct"
    /\ grid_x = 3
    /\ grid_y = 3
    /\ pos = 4
    /\ read(cells, 4) = "Susceptible"
    /\ Len(get_neighbors(grid_x, grid_y, 1, 1)) = 8
    /\ Len(get_neighbors(grid_x, grid_y, 0, 0)) = 3
    /\ Len(get_neighbors(grid_x, grid_y, 1, 0)) = 5

----------------------------------------------------------------------------
(* C13, under SpecInit *)

\* C13: initial grid shape.  Whenever Grid::init returns a grid for the
\* dimensions (width, height) it was called with, the grid has these dimensions,
\* its buffer has ceil(width * height / 4) bytes, and each of its width * height
\* cells is Susceptible or Infected, none Recovered; with i_ratio = 0.0 every
\* cell is Susceptible and with i_ratio = 1.0 every cell is Infected.
C13_InitialShape ==
    [][(pc = "init" /\ pc' = "idle") =>
          /\ grid_x' = grid_x
          /\ grid_y' = grid_y
          /\ DOMAIN cells' = 0 .. CeilDiv(grid_x * grid_y, 4) - 1
          /\ \A j \in 0 .. grid_x * grid_y - 1 :
                /\ read(cells', j) \in {"Susceptible", "Infected"}
                /\ params.i_ratio = 0 => read(cells', j) = "Susceptible"
                /\ params.i_ratio = One => read(cells', j) = "Infected"]_vars

\* C13 witness: Grid::init has returned a grid of 6 cells in 2 bytes, drawn with
\* i_ratio = 0.5, that holds Susceptible and Infected cells in both bytes.
C13_Witness ==
    /\ pc = "idle"
    /\ grid_x * grid_y = 6
    /\ DOMAIN cells = {0, 1}
    /\ params.i_ratio = Half
    /\ read(cells, 0) = "Infected" /\ read(cells, 1) = "Susceptible"
    /\ read(cells, 4) = "Susceptible" /\ read(cells, 5) = "Infected"

----------------------------------------------------------------------------
(* C14, under SpecInit *)

\* Grid::init has panicked
Panicked == pc \in {PanicOverflow, PanicTooLarge}

\* the product of the dimensions fits usize
ProductFits == grid_y = 0 \/ grid_x <= UsizeMax \div grid_y

\* C14: construction errors.  Grid::init fails with the dimension-overflow
\* condition when width * height does not fit usize, and with the grid-too-large
\* condition when the product fits and is strictly greater than MAX_CELLS; a
\* product up to and equal to MAX_CELLS is accepted.  A failure produces no grid
\* and is final: the size is never clamped to build one.
C14_ConstructionErrors ==
    /\ [][(pc = "start" /\ pc' # "start") =>
             /\ ~ProductFits => pc' = PanicOverflow
             /\ (ProductFits /\ grid_x * grid_y > MAX_CELLS) => pc' = PanicTooLarge
             /\ (ProductFits /\ grid_x * grid_y <= MAX_CELLS) => pc' = "init"]_vars
    /\ [][Panicked => pc' = pc /\ cells' = cells]_vars
    /\ [](Panicked => cells = <<>>)

\* C14 witness: Grid::init has panicked for a product one above the ceiling.
C14_Witness ==
    /\ pc = PanicTooLarge
    /\ grid_x = 1
    /\ grid_y = MAX_CELLS + 1

----------------------------------------------------------------------------
(* C15 *)

\* the changes of state a cell can make in one step
ForwardMoves == {<<"Susceptible", "Infected">>, <<"Infected", "Recovered">>}

\* C15: only forward transitions, one at a time.  Whenever a step (direct or
\* tiled) returns, each cell either has the state it had before the step, or has
\* moved from Susceptible to Infected or from Infected to Recovered: never from
\* Infected to Susceptible, never from Susceptible to Recovered.
C15_ForwardTransitions ==
    [][Publish => \A j \in Indices :
          \/ read(cells', j) = read(cells, j)
          \/ <<read(cells, j), read(cells', j)>> \in ForwardMoves]_vars

\* C15 witness: a step has written every cell; in the grid it returns one cell
\* has moved from Susceptible to Infected and another from Infected to Recovered.
C15_Witness ==
    /\ Scanned
    /\ \E i, j \in Indices :
          /\ read(cells, i) = "Susceptible" /\ read(Output, i) = "Infected"
          /\ read(cells, j) = "Infected" /\ read(Output, j) = "Recovered"

----------------------------------------------------------------------------
(* C16 *)

\* C16: packed write is exact and local.  For the grid of every reachable
\* state, every index i below width * height and every HealthState s: in the
\* buffer write(i, s) leaves, read(i) is s, read(j) is what it was for every other
\* cell j, those packed in the byte of i included, and the buffer has the same
\* byte indices; Grid::write_state does the same on a raw buffer.
C16_WriteExactLocal ==
    pc = "idle" =>
       \A i \in Indices : \A s \in HealthState :
          /\ read(write(cells, i, s), i) = s
          /\ \A j \in Indices \ {i} : read(write(cells, i, s), j) = read(cells, j)
          /\ DOMAIN write(cells, i, s) = DOMAIN cells
          /\ write_state(cells, i, s) = write(cells, i, s)

\* C16 witness: the caller has written a cell whose byte holds an Infected and
\* a Recovered cell besides it, in a grid of more than one byte.
C16_Witness ==
    /\ pc = "idle"
    /\ nwrites > 0
    /\ Size > 4
    /\ \E i, j, k \in Indices :
          /\ i \div 4 = j \div 4 /\ j \div 4 = k \div 4
          /\ read(cells, i) = "Susceptible"
          /\ read(cells, j) = "Infected"
          /\ read(cells, k) = "Recovered"

----------------------------------------------------------------------------
(* C17 *)

\* C17: infection needs an infected neighbour.  Whenever a step (direct or
\* tiled) returns, every cell that was Susceptible with no Infected cell among
\* its Moore neighbours inside the grid is still Susceptible, for every
\* parameter set; positions outside the grid never count as Infected.
C17_NoInfectionWithoutNeighbour ==
    [][Publish => \A j \in Indices :
          (read(cells, j) = "Susceptible" /\ InfectedAround(j) = 0)
             => read(cells', j) = "Susceptible"]_vars

\* C17 witness: with beta > 0 a step has written every cell; the corner cell 0,
\* Susceptible with no Infected neighbour, is still Susceptible, while another
\* cell of the same grid has been infected.
C17_Witness ==
    /\ Scanned
    /\ params.beta > 0
    /\ Size > 2
    /\ read(cells, 0) = "Susceptible"
    /\ InfectedAround(0) = 0
    /\ read(Output, 0) = "Susceptible"
    /\ \E i \in Indices : read(cells, i) = "Susceptible" /\ read(Output, i) = "Infected"

----------------------------------------------------------------------------
(* C18 *)

\* the grid buf holds no Infected cell
DiseaseFree(buf) == \A j \in Indices : read(buf, j) # "Infected"

\* C18: disease-free grids are fixed points.  Whenever a step (direct or
\* tiled) returns from a grid without an Infected cell, the grid it leaves is
\* equal to the grid before the step, cell for cell, for every parameter set: so
\* the infected count is 0 after it, and after every later step.
C18_DiseaseFreeFixedPoint ==
    [][(Publish /\ DiseaseFree(cells)) =>
          /\ \A j \in Indices : read(cells', j) = read(cells, j)
          /\ DiseaseFree(cells')]_vars

\* C18 witness: with beta > 0 a step has written every cell of a grid of
\* Susceptible and Recovered cells, none Infected, and returns the same cells.
C18_Witness ==
    /\ Scanned
    /\ params.beta > 0
    /\ DiseaseFree(cells)
    /\ \E i, j \in Indices : read(cells, i) = "Susceptible" /\ read(cells, j) = "Recovered"
    /\ \A j \in Indices : read(Output, j) = read(cells, j)

----------------------------------------------------------------------------
(* C19, under SpecMain *)

\* Grid::init has returned the grid of main
MainGridBuilt == pc \in {"idle", "direct", "done"}

====
